---- MODULE Spec2Model ----
(***************************************************************************)
(* Model of the TODO collector plugin (src/main.ts).                       *)
(*                                                                         *)
(* A document is the sequence of its lines (content.split("\n")), so the   *)
(* empty document is the one-line sequence <<Blank>>.  A line is a record  *)
(*   k : the shape of the line                                             *)
(*       "item"  "- [ ] <t> (<s>)" or "- [x] <t> (<s>)"  (d = checked;     *)
(*               s = "" when the line has no "(<source>)" suffix)           *)
(*       "tag"   "<s> <t>"       a line tagged with the tag string s       *)
(*       "fm"    "---"           a frontmatter marker                      *)
(*       "kv"    "<t>: <s>"      a key: value line                         *)
(*       "hdr"   "# <t>" (n = 1) or "## <t>" (n = 2)                       *)
(*       "blank" ""                                                        *)
(*       "text"  any other line                                            *)
(*   n : for an item or a tagged line, 1 when the text carries trailing    *)
(*       white space, else 0; for a header its level.                      *)
(* Group names are romanised: the module's strings are ASCII.              *)
(***************************************************************************)
EXTENDS Integers, Sequences, FiniteSets, TLC

VARIABLES
  docs,       \* source documents of the vault: path -> lines, NoDoc when absent
  out,        \* the output document (settings.outputFilePath): lines, or NoDoc
  settings,   \* the settings the operations read
  now,        \* Date.now(), in milliseconds
  h,          \* the change handler between its read and its write, or NoHandler
  last,       \* history: what the last operation was, read and did
  passes      \* the collectAndClassifyTodos calls of the two callbacks, step by step

vars == <<docs, out, settings, now, h, last, passes>>

----------------------------------------------------------------------------
(* Lines *)

Item(done, text, src, pad) == [k |-> "item", t |-> text, s |-> src, d |-> done, n |-> pad]
TagLine(tag, text, pad)    == [k |-> "tag", t |-> text, s |-> tag, d |-> FALSE, n |-> pad]
Marker                     == [k |-> "fm", t |-> "", s |-> "", d |-> FALSE, n |-> 0]
KV(key, val)               == [k |-> "kv", t |-> key, s |-> val, d |-> FALSE, n |-> 0]
Hdr(lvl, name)             == [k |-> "hdr", t |-> name, s |-> "", d |-> FALSE, n |-> lvl]
Blank                      == [k |-> "blank", t |-> "", s |-> "", d |-> FALSE, n |-> 0]
Text(t)                    == [k |-> "text", t |-> t, s |-> "", d |-> FALSE, n |-> 0]

NoDoc == <<>>

\* lines.join("\n") followed by split("\n"): no line at all is the empty string,
\* which splits into one empty line.
Join(lines) == IF lines = <<>> THEN <<Blank>> ELSE lines

\* line.startsWith("- [ ]"), line.startsWith("- [x]")
StartsUnchecked(l) == l.k = "item" /\ ~l.d
StartsChecked(l)   == l.k = "item" /\ l.d

Range(s) == {s[i] : i \in DOMAIN s}
ItemLines(lines) == {l \in Range(lines) : l.k = "item"}
Count(lines, l) == Cardinality({i \in DOMAIN lines : lines[i] = l})
Min(S) == CHOOSE x \in S : \A y \in S : x <= y

----------------------------------------------------------------------------
(* Program constants *)

DEFAULT_GROUPS ==
  <<"kaimono", "kaihatsu", "gakushu", "kaji", "shigoto", "kenko", "mibunrui">>
CatchAll == "mibunrui"
todoTags == <<"#TODO", "#t">>
targetDirectories == <<"a", "b">>
autoDeleteHours == 24
protectionHours == 24
HourMs == 3600 * 1000

----------------------------------------------------------------------------
(* Bounds *)

MaxTicks == 3              \* the clock stops after this many half days
MaxLen == 4                \* the longest document the sweep is applied to, in lines
MaxScanLen == 5            \* the longest document a pass is applied to, in lines
MaxChainLen == 4           \* the longest saved document of a notification chain
MaxDirs == 2               \* the longest list of target directories
TickMs == 12 * HourMs      \* one step of the clock

\* The paths of the vault's markdown files, in getMarkdownFiles() order.
AllPaths == << [dir |-> "a", base |-> "n1"], [dir |-> "b", base |-> "n1"] >>
Paths == Range(AllPaths)

\* Further files: one in a subdirectory of a, one in the vault's root whose
\* name starts with a, one in a directory whose name starts with a, one in A.
MorePaths ==
  << [dir |-> "a/s", base |-> "n2"], [dir |-> "", base |-> "ab"],
     [dir |-> "ab", base |-> "n3"], [dir |-> "A", base |-> "n4"] >>
VaultPaths == AllPaths \o MorePaths

\* The characters of the strings paths are made of.
Chars(s) ==
  CASE s = "" -> <<>>
    [] s = "a" -> <<"a">>
    [] s = "A" -> <<"A">>
    [] s = "b" -> <<"b">>
    [] s = "ab" -> <<"a", "b">>
    [] s = "a/" -> <<"a", "/">>
    [] s = "a/s" -> <<"a", "/", "s">>
    [] s = "n1" -> <<"n", "1">>
    [] s = "n2" -> <<"n", "2">>
    [] s = "n3" -> <<"n", "3">>
    [] s = "n4" -> <<"n", "4">>
    [] s = "TODO" -> <<"T", "O", "D", "O">>

\* file.path, the extension left out
PathChars(p) ==
  IF p.dir = "" THEN Chars(p.base) ELSE Chars(p.dir) \o <<"/">> \o Chars(p.base)

\* String.prototype.toLowerCase
toLowerCase(cs) ==
  [i \in DOMAIN cs |->
     CASE cs[i] = "A" -> "a" [] cs[i] = "T" -> "t" [] cs[i] = "O" -> "o"
       [] cs[i] = "D" -> "d" [] OTHER -> cs[i]]

\* String.prototype.startsWith, String.prototype.endsWith
startsWith(cs, prefix) ==
  Len(prefix) <= Len(cs) /\ SubSeq(cs, 1, Len(prefix)) = prefix
endsWith(cs, c) == cs # <<>> /\ cs[Len(cs)] = c

----------------------------------------------------------------------------
(* Frontmatter *)

IsMarker(l) == l.k = "fm"

FirstMarkerFrom(lines, i) ==
  LET S == {j \in i..Len(lines) : IsMarker(lines[j])}
  IN IF S = {} THEN 0 ELSE Min(S)

\* 1-based positions of the first two marker lines; 0 stands for the code's -1.
frontmatterStart(lines) == FirstMarkerFrom(lines, 1)
frontmatterEnd(lines) ==
  IF frontmatterStart(lines) = 0 THEN 0
  ELSE FirstMarkerFrom(lines, frontmatterStart(lines) + 1)
hasFrontmatter(lines) == frontmatterEnd(lines) # 0

\* obj[key] = val on an object whose keys keep their insertion order
SetKey(obj, key, val) ==
  IF \E i \in DOMAIN obj : obj[i][1] = key
  THEN [i \in DOMAIN obj |-> IF obj[i][1] = key THEN <<key, val>> ELSE obj[i]]
  ELSE Append(obj, <<key, val>>)

RECURSIVE parseYaml(_)
parseYaml(lines) ==
  IF lines = <<>> THEN <<>>
  ELSE LET rest == parseYaml(SubSeq(lines, 1, Len(lines) - 1))
           l == lines[Len(lines)]
       IN IF l.k = "kv" THEN SetKey(rest, l.t, l.s) ELSE rest

\* Object.entries(obj).map(([k, v]) => `${k}: ${v}`)
EntryLines(obj) == [i \in DOMAIN obj |-> KV(obj[i][1], obj[i][2])]

FrontmatterOf(lines) ==
  IF hasFrontmatter(lines)
  THEN parseYaml(SubSeq(lines, frontmatterStart(lines) + 1, frontmatterEnd(lines) - 1))
  ELSE <<>>

\* currentFrontmatter.add_todo is truthy
HasSentinel(lines) ==
  \E i \in DOMAIN FrontmatterOf(lines) :
     FrontmatterOf(lines)[i][1] = "add_todo" /\ FrontmatterOf(lines)[i][2] # ""

\* WithSentinel with the block rewritten to the one line add_todo: true
WithSentinelOnly(lines) ==
  IF ~hasFrontmatter(lines)
  THEN <<Marker, KV("add_todo", "true"), Marker>> \o lines
  ELSE SubSeq(lines, 1, frontmatterStart(lines))
       \o <<KV("add_todo", "true")>>
       \o SubSeq(lines, frontmatterEnd(lines), Len(lines))

\* The rewrite of a source document in which a tagged line was found.
WithSentinel(lines) ==
  IF ~hasFrontmatter(lines)
  THEN <<Marker, KV("add_todo", "true"), Marker>> \o lines
  ELSE SubSeq(lines, 1, frontmatterStart(lines))
       \o EntryLines(SetKey(FrontmatterOf(lines), "add_todo", "true"))
       \o SubSeq(lines, frontmatterEnd(lines), Len(lines))

----------------------------------------------------------------------------
(* Scanning *)

\* line.match(new RegExp(`^\\s*${tag}\\s+(.+)$`)) for some tag of settings.todoTags
MatchesTag(l) == l.k = "tag" /\ \E i \in DOMAIN todoTags : todoTags[i] = l.s

\* `- [ ] ${todoText} (${file.basename})`
RenderTask(l, base) == Item(FALSE, l.t, base, l.n)

\* ScanLine without the duplicate check
ScanLineNoCheck(l, base, acc) ==
  IF MatchesTag(l)
  THEN [found |-> TRUE,
        existing |-> acc.existing \cup {RenderTask(l, base)},
        new |-> Append(acc.new, RenderTask(l, base))]
  ELSE acc

\* The loop over the lines of one file; acc = [found, existing, new].
ScanLine(l, base, acc) ==
  IF MatchesTag(l)
  THEN LET t == RenderTask(l, base)
       IN [found |-> TRUE,
           existing |-> acc.existing \cup {t},
           new |-> IF t \in acc.existing THEN acc.new ELSE Append(acc.new, t)]
  ELSE acc

RECURSIVE ScanLines(_, _, _)
ScanLines(lines, base, acc) ==
  IF lines = <<>> THEN acc
  ELSE ScanLines(Tail(lines), base, ScanLine(Head(lines), base, acc))

\* SkipFile without the test of the sentinel
SkipFileNever(lines) == FALSE

\* A document already marked is skipped.
SkipFile(lines) == HasSentinel(lines)

\* One iteration of `for (const file of files)`;
\* st = [docs, existing, new, written].
ScanFile(p, st) ==
  LET lines == st.docs[p]
      r == ScanLines(lines, p.base,
                     [found |-> FALSE, existing |-> st.existing, new |-> st.new])
  IN IF SkipFile(lines) THEN st
     ELSE [docs |-> IF r.found THEN [st.docs EXCEPT ![p] = WithSentinel(lines)]
                    ELSE st.docs,
           existing |-> r.existing,
           new |-> r.new,
           written |-> IF r.found THEN st.written \cup {p} ELSE st.written]

normalizedDirWithSlash(dir) ==
  IF endsWith(Chars(dir), "/") THEN Chars(dir) ELSE Chars(dir) \o <<"/">>

\* IsCandidate with the directory compared without its separator
IsCandidateNoSlash(p, dir) ==
  /\ p # [dir |-> "", base |-> "TODO"]
  /\ startsWith(toLowerCase(PathChars(p)), toLowerCase(Chars(dir)))

\* The files of one target directory among allFiles.
IsCandidate(p, dir) ==
  /\ p # [dir |-> "", base |-> "TODO"]
  /\ startsWith(toLowerCase(PathChars(p)), toLowerCase(normalizedDirWithSlash(dir)))

FilesOf(allFiles, dir) == SelectSeq(allFiles, LAMBDA p : IsCandidate(p, dir))

RECURSIVE Visits(_, _)
Visits(allFiles, dirs) ==
  IF dirs = <<>> THEN <<>>
  ELSE FilesOf(allFiles, Head(dirs)) \o Visits(allFiles, Tail(dirs))

RECURSIVE ScanFiles(_, _)
ScanFiles(visits, st) ==
  IF visits = <<>> THEN st
  ELSE ScanFiles(Tail(visits), ScanFile(Head(visits), st))

\* vault.getMarkdownFiles() without the output document
MarkdownFiles(d) == SelectSeq(VaultPaths, LAMBDA p : p \in DOMAIN d /\ d[p] # NoDoc)

\* The collection loops of a pass whose duplicate check starts from `seed`.
Collect(d, seed) ==
  ScanFiles(Visits(MarkdownFiles(d), settings.targetDirectories),
            [docs |-> d, existing |-> seed, new |-> <<>>, written |-> {}])

----------------------------------------------------------------------------
(* collectTodos *)

\* the text of a checked line after "- [x] "
TaskText(l) == <<l.t, l.s, l.n>>

\* WithinRetention with a line kept at the very end of its retention time
WithinRetentionInclusive(l, t) ==
  \E c \in settings.completedTodos :
     c.text = TaskText(l) /\ t - c.completedAt <= autoDeleteHours * HourMs

\* the delayed policy's test of one checked line
WithinRetention(l, t) ==
  \E c \in settings.completedTodos :
     c.text = TaskText(l) /\ t - c.completedAt < autoDeleteHours * HourMs

\* RebuildOutput with the unchecked lines filtered like the checked ones
RebuildOutputCheckedOnly(lines, newTasks, t) ==
  CASE settings.completedTodoHandling = "immediate" -> newTasks
    [] settings.completedTodoHandling = "delayed" ->
         SelectSeq(lines, LAMBDA l : StartsChecked(l) /\ WithinRetention(l, t)) \o newTasks
    [] OTHER -> SelectSeq(lines, StartsChecked) \o newTasks

\* RebuildOutput with every policy treated as keep
RebuildOutputKeepAll(lines, newTasks, t) ==
  SelectSeq(lines, StartsChecked) \o SelectSeq(lines, StartsUnchecked) \o newTasks

\* RebuildOutput with the checked lines expiring under keep as under delayed
RebuildOutputKeepExpires(lines, newTasks, t) ==
  IF settings.completedTodoHandling = "immediate"
  THEN SelectSeq(lines, StartsUnchecked) \o newTasks
  ELSE SelectSeq(lines, LAMBDA l : StartsChecked(l) /\ WithinRetention(l, t))
       \o SelectSeq(lines, StartsUnchecked) \o newTasks

\* RebuildOutput with the unchecked lines put before the checked ones
RebuildOutputUncheckedFirst(lines, newTasks, t) ==
  LET unchecked == SelectSeq(lines, StartsUnchecked)
  IN CASE settings.completedTodoHandling = "immediate" ->
            unchecked \o newTasks
       [] settings.completedTodoHandling = "delayed" ->
            unchecked
            \o SelectSeq(lines, LAMBDA l : StartsChecked(l) /\ WithinRetention(l, t))
            \o newTasks
       [] OTHER ->
            unchecked \o SelectSeq(lines, StartsChecked) \o newTasks

\* The retention switch: the lines of the rewritten output document.
RebuildOutput(lines, newTasks, t) ==
  LET unchecked == SelectSeq(lines, StartsUnchecked)
  IN CASE settings.completedTodoHandling = "immediate" ->
            unchecked \o newTasks
       [] settings.completedTodoHandling = "delayed" ->
            SelectSeq(lines, LAMBDA l : StartsChecked(l) /\ WithinRetention(l, t))
            \o unchecked \o newTasks
       [] OTHER ->
            SelectSeq(lines, StartsChecked) \o unchecked \o newTasks

\* The protection window of the last classification is open.
Protected(t) ==
  /\ settings.protectClassifiedFiles
  /\ settings.lastClassificationTime > 0
  /\ t - settings.lastClassificationTime < protectionHours * 60 * 60 * 1000

\* [ran, docs, out, new, written]
collectTodos(d, o, t) ==
  IF o = NoDoc \/ Protected(t)
  THEN [ran |-> FALSE, docs |-> d, out |-> o, new |-> <<>>, written |-> {}]
  ELSE LET c == Collect(d, {l \in Range(o) : StartsUnchecked(l) \/ StartsChecked(l)})
       IN [ran |-> TRUE, docs |-> c.docs,
           out |-> Join(RebuildOutput(o, c.new, t)),
           new |-> c.new, written |-> c.written]

----------------------------------------------------------------------------
(* Grouped documents.  A group structure is the sequence of the object's    *)
(* entries [name, items] in insertion order.                                *)

HasGroup(groups, name) == \E i \in DOMAIN groups : groups[i].name = name

GroupItems(groups, name) ==
  IF HasGroup(groups, name)
  THEN groups[CHOOSE i \in DOMAIN groups : groups[i].name = name].items
  ELSE <<>>

\* if (!groups[name]) groups[name] = []
EnsureGroup(groups, name) ==
  IF HasGroup(groups, name) THEN groups
  ELSE Append(groups, [name |-> name, items |-> <<>>])

\* groups[name].push(...ls), the key created when it is missing
PushAll(groups, name, ls) ==
  LET g == EnsureGroup(groups, name)
  IN [i \in DOMAIN g |->
        IF g[i].name = name THEN [g[i] EXCEPT !.items = @ \o ls] ELSE g[i]]

InitialGroups == [i \in DOMAIN DEFAULT_GROUPS |-> [name |-> DEFAULT_GROUPS[i], items |-> <<>>]]
IsDefaultGroup(name) == \E i \in DOMAIN DEFAULT_GROUPS : DEFAULT_GROUPS[i] = name

\* st = [groups, cur]; cur = "" while no "## " header has been read
SeparateLine(l, st) ==
  IF l.k = "hdr" /\ l.n = 2
  THEN [groups |-> EnsureGroup(st.groups, l.t), cur |-> l.t]
  ELSE IF l.k = "item"
       THEN [groups |-> PushAll(st.groups, IF st.cur # "" THEN st.cur ELSE CatchAll, <<l>>),
             cur |-> st.cur]
       ELSE st

RECURSIVE SeparateLines(_, _)
SeparateLines(lines, st) ==
  IF lines = <<>> THEN st
  ELSE SeparateLines(Tail(lines), SeparateLine(Head(lines), st))

separateExistingAndNewTodos(lines) ==
  SeparateLines(lines, [groups |-> InitialGroups, cur |-> ""]).groups

\* One "## name" section of a grouped document, nothing for an empty group.
Section(name, items) ==
  IF items = <<>> THEN <<>> ELSE <<Hdr(2, name), Blank>> \o items \o <<Blank>>

RECURSIVE Sections(_)
Sections(groups) ==
  IF groups = <<>> THEN <<>>
  ELSE Section(Head(groups).name, Head(groups).items) \o Sections(Tail(groups))

convertGroupsToContent(groups) == Sections(groups)

\* The parse of a freeform classification result; st = [groups, cur].
NewLine(l, st) ==
  IF l.k = "hdr"
  THEN [groups |-> EnsureGroup(st.groups, l.t), cur |-> l.t]
  ELSE IF l.k = "item"
       THEN [groups |-> PushAll(st.groups, IF st.cur # "" THEN st.cur ELSE CatchAll, <<l>>),
             cur |-> st.cur]
       ELSE st

RECURSIVE NewLines(_, _)
NewLines(lines, st) ==
  IF lines = <<>> THEN st
  ELSE NewLines(Tail(lines), NewLine(Head(lines), st))

ParseClassification(newClassification) ==
  NewLines(newClassification, [groups |-> <<>>, cur |-> ""]).groups

\* MergedDefaultGroups with the new lines of a group put before the existing ones
MergedDefaultGroupsNewFirst(existingGroups, newGroups) ==
  [i \in DOMAIN DEFAULT_GROUPS |->
     [name |-> DEFAULT_GROUPS[i],
      items |-> GroupItems(newGroups, DEFAULT_GROUPS[i])
                \o GroupItems(existingGroups, DEFAULT_GROUPS[i])]]

\* The canonical sections of the merged document.
MergedDefaultGroups(existingGroups, newGroups) ==
  [i \in DOMAIN DEFAULT_GROUPS |->
     [name |-> DEFAULT_GROUPS[i],
      items |-> GroupItems(existingGroups, DEFAULT_GROUPS[i])
                \o GroupItems(newGroups, DEFAULT_GROUPS[i])]]

\* The sections of the merged document that follow the canonical ones.
MergedOtherGroups(existingGroups, newGroups) ==
  SelectSeq(newGroups, LAMBDA g : ~IsDefaultGroup(g.name))

\* The lines pushed to `result`; none at all when the merge is empty.
mergeExistingAndNewClassification(existingGroups, newClassification) ==
  LET newGroups == ParseClassification(newClassification)
  IN Sections(MergedDefaultGroups(existingGroups, newGroups))
     \o Sections(MergedOtherGroups(existingGroups, newGroups))

\* A TodoItem of the JSON form and its line.
TodoItem(text, completed, source) == [text |-> text, completed |-> completed, source |-> source]
ExistingToTodoItem(l) == TodoItem(l.t, l.d, l.s)
TodoItemLine(todo) == Item(todo.completed, todo.text, todo.source, 0)

\* mergedGroups[groupName] = existingTodos.map(...) for the non-empty groups
RECURSIVE AddExisting(_, _)
AddExisting(merged, existingGroups) ==
  IF existingGroups = <<>> THEN merged
  ELSE LET g == Head(existingGroups)
           m == IF g.items = <<>> THEN merged
                ELSE LET e == EnsureGroup(merged, g.name)
                     IN [i \in DOMAIN e |->
                           IF e[i].name = g.name
                           THEN [e[i] EXCEPT !.items =
                                   [j \in DOMAIN g.items |-> ExistingToTodoItem(g.items[j])]]
                           ELSE e[i]]
       IN AddExisting(m, Tail(existingGroups))

\* mergedGroups[groupName].push(...newTodos) for the non-empty groups
RECURSIVE AddNew(_, _)
AddNew(merged, newGroups) ==
  IF newGroups = <<>> THEN merged
  ELSE LET g == Head(newGroups)
       IN AddNew(IF g.items = <<>> THEN merged ELSE PushAll(merged, g.name, g.items),
                 Tail(newGroups))

convertJsonToMarkdown(groups) ==
  Sections([i \in DOMAIN groups |->
              [name |-> groups[i].name,
               items |-> [j \in DOMAIN groups[i].items |-> TodoItemLine(groups[i].items[j])]]])

MergeJson(existingGroups, jsonGroups) ==
  convertJsonToMarkdown(AddNew(AddExisting(InitialGroups, existingGroups), jsonGroups))

----------------------------------------------------------------------------
(* The classification service.  A response is [kind, asg]:                  *)
(*   "reject"       fetch rejects                                           *)
(*   "non2xx"       a response whose status is not 2xx                      *)
(*   "empty"        2xx, classifiedContent missing or ""                    *)
(*   "garbage"      2xx, classifiedContent is text that is not JSON         *)
(*   "jsonNoGroups" 2xx, classifiedContent is JSON without a groups key     *)
(*   "freeform"     2xx, "# " or "## " headers followed by checkbox lines   *)
(*   "json"         2xx, JSON with a groups mapping                         *)
(* asg[i] is the group given to the i-th new item, "none" when the item     *)
(* comes before any header, "omit" when the result leaves the item out.     *)

ClassGroups == <<"kaimono", "emoji kaimono">>
TransportKinds == {"reject", "non2xx"}
MalformedKinds == {"empty", "garbage", "jsonNoGroups"}

ItemsOf(newTodos, asg, g) ==
  LET idx == SelectSeq([i \in DOMAIN newTodos |-> i], LAMBDA i : asg[i] = g)
  IN [j \in DOMAIN idx |-> newTodos[idx[j]]]

\* The service writes a canonical group as "## name" and its own groups as "# name".
HeaderLevel(g) == IF g = "kaimono" THEN 2 ELSE 1

RECURSIVE FreeformGroups(_, _, _)
FreeformGroups(newTodos, asg, gs) ==
  IF gs = <<>> THEN <<>>
  ELSE (IF ItemsOf(newTodos, asg, Head(gs)) = <<>> THEN <<>>
        ELSE <<Hdr(HeaderLevel(Head(gs)), Head(gs))>>
             \o ItemsOf(newTodos, asg, Head(gs)) \o <<Blank>>)
       \o FreeformGroups(newTodos, asg, Tail(gs))

\* result.classifiedContent of a text response
ClassifiedText(newTodos, r) ==
  CASE r.kind = "garbage" -> <<Text("sorry")>>
    [] r.kind = "jsonNoGroups" -> <<Text("{\"a\":1}")>>
    [] OTHER -> ItemsOf(newTodos, r.asg, "none")
                \o FreeformGroups(newTodos, r.asg, ClassGroups)

\* JSON.parse(result.classifiedContent).groups of a JSON response
ClassifiedJson(newTodos, r) ==
  LET gs == SelectSeq(ClassGroups, LAMBDA g : ItemsOf(newTodos, r.asg, g) # <<>>)
  IN [i \in DOMAIN gs |->
        [name |-> gs[i],
         items |-> [j \in DOMAIN ItemsOf(newTodos, r.asg, gs[i]) |->
                      ExistingToTodoItem(ItemsOf(newTodos, r.asg, gs[i])[j])]]]

Assignments(n, choices) == [1..n -> choices]

Responses(newTodos) ==
  [kind : TransportKinds \cup MalformedKinds,
   asg : {[i \in DOMAIN newTodos |-> "omit"]}]
  \cup [kind : {"freeform"},
        asg : Assignments(Len(newTodos), Range(ClassGroups) \cup {"none", "omit"})]
  \cup [kind : {"json"},
        asg : Assignments(Len(newTodos), Range(ClassGroups) \cup {"omit"})]

----------------------------------------------------------------------------
(* classifyNewTodosWithAi *)

\* existingContent && existingContent.trim() !== ""
NonEmptyContent(o) == o # NoDoc /\ \E i \in DOMAIN o : o[i].k # "blank"

ExistingGroups(o) == IF NonEmptyContent(o) THEN separateExistingAndNewTodos(o) ELSE <<>>

\* the fallback: the new items appended to the catch-all group of the existing structure
FallbackContent(o, newTodos) ==
  convertGroupsToContent(PushAll(ExistingGroups(o), CatchAll, newTodos))

\* The branches of a 2xx response: [out, lct].
ClassifyOk(o, newTodos, r, t, lct) ==
  IF r.kind = "empty"
  THEN [out |-> Join(FallbackContent(o, newTodos)), lct |-> lct]
  ELSE IF r.kind = "json"
  THEN [out |-> Join(MergeJson(ExistingGroups(o), ClassifiedJson(newTodos, r))), lct |-> t]
  ELSE LET merged == mergeExistingAndNewClassification(ExistingGroups(o),
                                                       ClassifiedText(newTodos, r))
       IN IF merged = <<>>
          THEN [out |-> Join(FallbackContent(o, newTodos)), lct |-> lct]
          ELSE [out |-> merged, lct |-> t]

\* classifyNewTodosWithAi with the fallback document written on a transport failure
classifyWritesOnFailure(o, newTodos, r, t, lct) ==
  IF r.kind \in TransportKinds
  THEN [out |-> Join(FallbackContent(o, newTodos)), lct |-> lct]
  ELSE ClassifyOk(o, newTodos, r, t, lct)

\* [out, lct] after the call
classifyNewTodosWithAi(o, newTodos, r, t, lct) ==
  IF r.kind \in TransportKinds
  THEN [out |-> o, lct |-> lct]
  ELSE ClassifyOk(o, newTodos, r, t, lct)


----------------------------------------------------------------------------
(* processCompletedTodos: the sweep of the change handler *)

OutputPath == [dir |-> "", base |-> "TODO"]

\* The frontmatter lines and what follows them when the document has a first
\* marker line: slice(frontmatterStart + 1, frontmatterEnd) and
\* slice(frontmatterEnd), where frontmatterEnd is -1 without a second marker.
SweepBlock(lines) ==
  IF frontmatterEnd(lines) # 0
  THEN SubSeq(lines, frontmatterStart(lines) + 1, frontmatterEnd(lines) - 1)
  ELSE SubSeq(lines, frontmatterStart(lines) + 1, Len(lines) - 1)

SweepRest(lines) ==
  IF frontmatterEnd(lines) # 0
  THEN SubSeq(lines, frontmatterEnd(lines), Len(lines))
  ELSE <<lines[Len(lines)]>>

\* MarkSource that clears the key where it is set
MarkSourceToggle(obj, filePath) ==
  IF filePath = [dir |-> "", base |-> "TODO"] THEN obj
  ELSE IF \E i \in DOMAIN obj : obj[i][1] = "add_todo"
  THEN SelectSeq(obj, LAMBDA e : e[1] # "add_todo")
  ELSE SetKey(obj, "add_todo", "true")

\* frontmatter.add_todo = true for every file but the output document
MarkSource(obj, filePath) ==
  IF filePath # OutputPath THEN SetKey(obj, "add_todo", "true") ELSE obj

\* processCompletedTodos without the early return of policy immediate
processCompletedTodosNoReturn(lines, filePath) ==
  IF ~\E i \in DOMAIN lines : StartsChecked(lines[i])
  THEN lines
  ELSE IF frontmatterStart(lines) = 0
  THEN <<Marker>> \o Join(EntryLines(MarkSource(<<>>, filePath))) \o <<Marker>> \o lines
  ELSE SubSeq(lines, 1, frontmatterStart(lines))
       \o EntryLines(MarkSource(parseYaml(SweepBlock(lines)), filePath))
       \o SweepRest(lines)

processCompletedTodos(lines, filePath) ==
  IF ~\E i \in DOMAIN lines : StartsChecked(lines[i])
  THEN lines
  ELSE IF settings.completedTodoHandling = "immediate"
  THEN Join(SelectSeq(lines, LAMBDA l : ~StartsChecked(l)))
  ELSE IF frontmatterStart(lines) = 0
  THEN <<Marker>> \o Join(EntryLines(MarkSource(<<>>, filePath))) \o <<Marker>> \o lines
  ELSE SubSeq(lines, 1, frontmatterStart(lines))
       \o EntryLines(MarkSource(parseYaml(SweepBlock(lines)), filePath))
       \o SweepRest(lines)

----------------------------------------------------------------------------
(* State *)

NoHandler == [file |-> OutputPath, changed |-> FALSE, newContent |-> <<>>, on |-> FALSE]

\* The two callbacks that start collectAndClassifyTodos without awaiting it.
Callbacks == {"ribbon", "command"}

\* A call not started: pc is where the call stands, visits the files still to
\* read, content the text of the file last read, new and existing the call's
\* collectedTodos and existingTasks, written the files it marked.
NoPass ==
  [pc |-> "idle", visits |-> <<>>, content |-> NoDoc, new |-> <<>>,
   existing |-> {}, written |-> {}]
NoPasses == [c \in Callbacks |-> NoPass]

NoResp == [kind |-> "none", asg |-> <<>>]

NoOp == [op |-> "none", row |-> 0, ran |-> FALSE, prevRan |-> FALSE, prevNew |-> <<>>,
         called |-> FALSE, outBefore |-> NoDoc, new |-> <<>>, written |-> {},
         resp |-> NoResp, lctBefore |-> 0, at |-> 0,
         docsBefore |-> [p \in Paths |-> NoDoc]]

\* The contents a source document is created with: one tagged line; the same
\* item tagged twice; a frontmatter block and a tagged line; no tagged line;
\* the empty document; a frontmatter block that holds a list entry ("- work",
\* a line without a colon) under its key, and a tagged line.
Templates ==
  { <<TagLine("#TODO", "x", 0)>>,
    <<Text("Sample"), TagLine("#TODO", "x", 0), TagLine("#t", "x", 0)>>,
    <<Marker, KV("title", "Test"), Marker, TagLine("#t", "y", 0)>>,
    <<Text("Sample")>>,
    <<Blank>>,
    <<Marker, KV("tags", ""), Text("- work"), Marker, TagLine("#TODO", "x", 0)>> }

\* Source documents that hold a checked line beside a tagged one.
CheckedTemplates ==
  { <<TagLine("#TODO", "y", 0), Item(TRUE, "z", "", 0)>>,
    <<Marker, KV("title", "Test"), Marker, TagLine("#TODO", "x", 0), Item(TRUE, "z", "", 0)>> }

\* The output documents the system starts from: none, an empty one, a flat list
\* with two checked lines and an unchecked one, and a grouped document.  None
\* holds a line twice.
FlatOutput ==
  <<Item(TRUE, "w", "n0", 0), Item(TRUE, "v", "n0", 0), Item(FALSE, "u", "n0", 0)>>
GroupedOutput ==
  <<Hdr(2, "kaimono"), Blank, Item(FALSE, "u", "n0", 0), Blank,
    Hdr(2, "emoji kaimono"), Blank, Item(TRUE, "w", "n0", 0), Blank>>
InitialOutputs == {NoDoc, <<Blank>>, FlatOutput, GroupedOutput}

\* settings.completedTodos as loaded: a record for the checked line w, none for v
InitialCompleted == { [text |-> <<"w", "n0", 0>>, completedAt |-> 0] }

Settings(policies, ai, protect, lcts) ==
  [targetDirectories : {targetDirectories},
   completedTodoHandling : policies,
   enableAiClassification : ai,
   todoClassificationProxyUrl : {"https://proxy"},
   geminiApiKey : {"key"},
   protectClassifiedFiles : protect,
   lastClassificationTime : lcts,
   completedTodos : {InitialCompleted}]

Policies == {"immediate", "delayed", "keep"}

InitWith(outs, sets) ==
  /\ docs = [p \in Paths |-> NoDoc]
  /\ out \in outs
  /\ settings \in sets
  /\ now = TickMs
  /\ h = NoHandler
  /\ last = NoOp
  /\ passes = NoPasses

----------------------------------------------------------------------------
(* Operations *)

\* The user creates a source document.
AddDocOf(templates) ==
  \E p \in Paths, c \in templates :
    /\ docs[p] = NoDoc
    /\ docs' = [docs EXCEPT ![p] = c]
    /\ last' = NoOp
    /\ UNCHANGED <<out, settings, now, h, passes>>

AddDoc == AddDocOf(Templates)
AddCheckedDoc == AddDocOf(CheckedTemplates)

\* Time passes.
Tick ==
  /\ now < MaxTicks * TickMs
  /\ now' = now + TickMs
  /\ UNCHANGED <<docs, out, settings, h, last, passes>>

\* A collectTodos pass.
CollectTodosPass ==
  LET r == collectTodos(docs, out, now)
  IN /\ docs' = r.docs
     /\ out' = r.out
     /\ last' = [op |-> "collect",
                 row |-> IF last.op = "collect" THEN 2 ELSE 1,
                 ran |-> r.ran,
                 prevRan |-> last.op = "collect" /\ last.ran,
                 prevNew |-> IF last.op = "collect" THEN last.new ELSE <<>>,
                 called |-> FALSE,
                 outBefore |-> out, new |-> r.new, written |-> r.written,
                 resp |-> NoResp,
                 lctBefore |-> settings.lastClassificationTime,
                 at |-> now, docsBefore |-> docs]
     /\ UNCHANGED <<settings, now, h, passes>>

\* [docs, out, lct, new, written, called] of a collectAndClassifyTodos pass
collectAndClassifyTodos(d, o, r, t) ==
  LET c == Collect(d, {})
      lct == settings.lastClassificationTime
  IN IF c.new = <<>>
     THEN [docs |-> c.docs, out |-> o, lct |-> lct, new |-> c.new,
           written |-> c.written, called |-> FALSE]
     ELSE IF settings.enableAiClassification /\ settings.todoClassificationProxyUrl # ""
     THEN LET a == classifyNewTodosWithAi(o, c.new, r, t, lct)
          IN [docs |-> c.docs, out |-> a.out, lct |-> a.lct, new |-> c.new,
              written |-> c.written, called |-> TRUE]
     ELSE [docs |-> c.docs, out |-> Join(c.new), lct |-> lct, new |-> c.new,
           written |-> c.written, called |-> FALSE]

\* A collectAndClassifyTodos pass (the ribbon icon, the command), with the
\* response of the classification service when it is called.
CollectAndClassifyPass ==
  \E r \in Responses(Collect(docs, {}).new) :
    LET p == collectAndClassifyTodos(docs, out, r, now)
    IN /\ (~p.called => r.kind = "reject")
       /\ docs' = p.docs
       /\ out' = p.out
       /\ settings' = [settings EXCEPT !.lastClassificationTime = p.lct]
       /\ last' = [op |-> "classify", row |-> 0, ran |-> TRUE, prevRan |-> FALSE,
                   prevNew |-> <<>>, called |-> p.called,
                   outBefore |-> out, new |-> p.new, written |-> p.written,
                   resp |-> IF p.called THEN r ELSE NoResp,
                   lctBefore |-> settings.lastClassificationTime,
                   at |-> now, docsBefore |-> docs]
       /\ UNCHANGED <<now, h, passes>>

\* A callback starts collectAndClassifyTodos: the call runs up to its first
\* read, the files to visit fixed from vault.getMarkdownFiles().
PassStart ==
  \E c \in Callbacks :
    /\ passes[c].pc = "idle"
    /\ passes' = [passes EXCEPT ![c] =
                    [NoPass EXCEPT !.pc = "read",
                                   !.visits = Visits(MarkdownFiles(docs),
                                                     settings.targetDirectories)]]
    /\ last' = NoOp
    /\ UNCHANGED <<docs, out, settings, now, h>>

\* `await vault.read(file)` resolves with the file's text.
PassRead ==
  \E c \in Callbacks :
    /\ passes[c].pc = "read" /\ passes[c].visits # <<>>
    /\ passes' = [passes EXCEPT ![c].pc = "modify",
                                ![c].content = docs[Head(passes[c].visits)]]
    /\ last' = NoOp
    /\ UNCHANGED <<docs, out, settings, now, h>>

\* The call scans the text it read and, when it found a tagged line,
\* `await vault.modify(file, newContent)` writes the marked text.
PassModify ==
  \E c \in Callbacks :
    /\ passes[c].pc = "modify"
    /\ LET p == Head(passes[c].visits)
           r == ScanFile(p, [docs |-> (p :> passes[c].content),
                             existing |-> passes[c].existing,
                             new |-> passes[c].new,
                             written |-> passes[c].written])
       IN /\ docs' = IF r.docs[p] # passes[c].content
                     THEN [docs EXCEPT ![p] = r.docs[p]] ELSE docs
          /\ passes' = [passes EXCEPT ![c].pc = "read",
                                      ![c].visits = Tail(passes[c].visits),
                                      ![c].content = NoDoc,
                                      ![c].existing = r.existing,
                                      ![c].new = r.new,
                                      ![c].written = r.written]
    /\ last' = NoOp
    /\ UNCHANGED <<out, settings, now, h>>

\* The files read, the call classifies what it collected or writes it to the
\* output document, and ends.
PassOutput ==
  \E c \in Callbacks :
    /\ passes[c].pc = "read" /\ passes[c].visits = <<>>
    /\ \E r \in Responses(passes[c].new) :
         LET new == passes[c].new
             ai == /\ new # <<>>
                   /\ settings.enableAiClassification
                   /\ settings.todoClassificationProxyUrl # ""
             a == classifyNewTodosWithAi(out, new, r, now,
                                         settings.lastClassificationTime)
         IN /\ (~ai => r.kind = "reject")
            /\ out' = IF new = <<>> THEN out ELSE IF ai THEN a.out ELSE Join(new)
            /\ settings' = IF ai THEN [settings EXCEPT !.lastClassificationTime = a.lct]
                           ELSE settings
    /\ passes' = [passes EXCEPT ![c].pc = "idle"]
    /\ last' = NoOp
    /\ UNCHANGED <<docs, now, h>>

Content(f) == IF f = OutputPath THEN out ELSE docs[f]

\* The change handler reads the modified file and computes its new content.
HandlerRead ==
  \E f \in Paths \cup {OutputPath} :
    /\ ~h.on
    /\ Content(f) # NoDoc
    /\ h' = [file |-> f, on |-> TRUE,
             changed |-> processCompletedTodos(Content(f), f) # Content(f),
             newContent |-> processCompletedTodos(Content(f), f)]
    /\ last' = NoOp
    /\ UNCHANGED <<docs, out, settings, now, passes>>

\* The change handler writes the new content when it differs from what it read.
HandlerWrite ==
  /\ h.on
  /\ IF ~h.changed THEN UNCHANGED <<docs, out>>
     ELSE IF h.file = OutputPath
     THEN out' = h.newContent /\ UNCHANGED docs
     ELSE docs' = [docs EXCEPT ![h.file] = h.newContent] /\ UNCHANGED out
  /\ h' = NoHandler
  /\ last' = NoOp
  /\ UNCHANGED <<settings, now, passes>>

----------------------------------------------------------------------------
(* Specifications *)

\* The whole system.
Init == InitWith(InitialOutputs, Settings(Policies, BOOLEAN, BOOLEAN, {0, TickMs}))

Next ==
  \/ AddDoc
  \/ AddCheckedDoc
  \/ Tick
  \/ CollectTodosPass
  \/ CollectAndClassifyPass
  \/ HandlerRead
  \/ HandlerWrite
  \/ PassStart
  \/ PassRead
  \/ PassModify
  \/ PassOutput

Spec == Init /\ [][Next]_vars

\* collectTodos passes over a growing document set, the clock running.
InitCollect == InitWith(InitialOutputs, Settings(Policies, {FALSE}, BOOLEAN, {TickMs}))
NextCollect == AddDoc \/ Tick \/ CollectTodosPass
SpecCollect == InitCollect /\ [][NextCollect]_vars

\* collectAndClassifyTodos passes over a growing document set.
InitClassify == InitWith(InitialOutputs, Settings({"keep"}, BOOLEAN, {FALSE}, {0}))
NextClassify == AddDoc \/ CollectAndClassifyPass
SpecClassify == InitClassify /\ [][NextClassify]_vars

\* The change handler beside the collection passes.
InitHandler == InitWith({<<Blank>>}, Settings(Policies, {FALSE}, {FALSE}, {0}))
NextHandler ==
  \/ AddCheckedDoc
  \/ CollectTodosPass
  \/ CollectAndClassifyPass
  \/ HandlerRead
  \/ HandlerWrite
SpecHandler == InitHandler /\ [][NextHandler]_vars

\* The two entry points with the protection flag on or off, the classification
\* endpoint and the credential set or empty, the output document present or
\* missing; lastClassificationTime is the present time.
PlainTemplates ==
  { <<TagLine("#TODO", "x", 0)>>,
    <<Marker, KV("title", "Test"), Marker, TagLine("#t", "y", 0)>> }
AddPlainDoc == AddDocOf(PlainTemplates)
EntrySettings ==
  { [s EXCEPT !.todoClassificationProxyUrl = u, !.geminiApiKey = k] :
      s \in Settings({"keep"}, BOOLEAN, BOOLEAN, {TickMs}),
      u \in {"", "https://proxy"},
      k \in {"", "key"} }
InitEntry == InitWith({NoDoc, <<Blank>>, FlatOutput}, EntrySettings)
NextEntry == AddPlainDoc \/ CollectTodosPass \/ CollectAndClassifyPass
SpecEntry == InitEntry /\ [][NextEntry]_vars

\* A pass of either entry point over one source document, for every document
\* of at most MaxScanLen lines.
ScanAlphabet ==
  { Marker, KV("title", "Test"), KV("tags", "work"), TagLine("#TODO", "x", 0),
    Text("note") }
ScanInputs == UNION { [1..n -> ScanAlphabet] : n \in 1..MaxScanLen }
InitScan ==
  /\ \E x \in ScanInputs : docs = [p \in Paths |-> IF p = AllPaths[1] THEN x ELSE NoDoc]
  /\ out = <<Blank>>
  /\ settings \in Settings({"keep"}, {FALSE}, {FALSE}, {0})
  /\ now = TickMs
  /\ h = NoHandler
  /\ last = NoOp
  /\ passes = NoPasses
NextScan == CollectTodosPass \/ CollectAndClassifyPass
SpecScan == InitScan /\ [][NextScan]_vars

\* A pass of either entry point under every list of at most MaxDirs target
\* directories, over a vault in which every file holds one tagged line.
Directories == {"a", "A", "a/", "a/s", "ab", "b"}
DirectoryLists == UNION { [1..n -> Directories] : n \in 1..MaxDirs }
InitCandidates ==
  /\ docs = [p \in Range(VaultPaths) |-> <<TagLine("#TODO", "x", 0)>>]
  /\ out = <<Blank>>
  /\ settings \in { [s EXCEPT !.targetDirectories = ds] :
                      s \in Settings({"keep"}, {FALSE}, {FALSE}, {0}),
                      ds \in DirectoryLists }
  /\ now = TickMs
  /\ h = NoHandler
  /\ last = NoOp
  /\ passes = NoPasses
NextCandidates == CollectTodosPass \/ CollectAndClassifyPass
SpecCandidates == InitCandidates /\ [][NextCandidates]_vars

\* The sweep applied to every document of at most MaxLen lines, as a source
\* document and as the output document, and again to what it wrote.
SweepLines ==
  { Marker, KV("title", "Test"), Item(TRUE, "z", "", 0), Item(FALSE, "u", "", 0),
    Text("note") }
SweepInputs == UNION { [1..n -> SweepLines] : n \in 1..MaxLen }
InitSweep ==
  /\ \E x \in SweepInputs :
       /\ docs = [p \in Paths |-> IF p = AllPaths[1] THEN x ELSE NoDoc]
       /\ out = x
  /\ settings \in Settings(Policies, {FALSE}, {FALSE}, {0})
  /\ now = TickMs
  /\ h = NoHandler
  /\ last = NoOp
  /\ passes = NoPasses
NextSweep == HandlerRead \/ HandlerWrite
SpecSweep == InitSweep /\ [][NextSweep]_vars

\* The two callbacks' calls interleaved at their reads and writes, over a
\* growing document set.
InitInterleave == InitWith({<<Blank>>}, Settings({"keep"}, {FALSE}, {FALSE}, {0}))
NextInterleave == AddPlainDoc \/ PassStart \/ PassRead \/ PassModify \/ PassOutput
SpecInterleave == InitInterleave /\ [][NextInterleave]_vars

\* One saved document of at most MaxChainLen lines, a source document or the
\* output document, and the handlers its save fires. Every fired handler runs
\* to its end: a write fires the handler again, and a started handler reads,
\* compares and writes without waiting on anything but the vault.
ChainLines == { Marker, KV("title", "Test"), Item(TRUE, "z", "", 0), Text("note") }
ChainInputs == UNION { [1..n -> ChainLines] : n \in 1..MaxChainLen }
InitChain ==
  /\ docs = [p \in Paths |-> NoDoc]
  /\ out = NoDoc
  /\ settings \in Settings(Policies, {FALSE}, {FALSE}, {0})
  /\ now = TickMs
  /\ h = NoHandler
  /\ last = NoOp
  /\ passes = NoPasses

\* The save that starts the chain: the editor writes the document.
Save ==
  \E x \in ChainInputs, f \in {AllPaths[1], OutputPath} :
    /\ out = NoDoc /\ \A p \in Paths : docs[p] = NoDoc
    /\ docs' = [p \in Paths |-> IF p = f THEN x ELSE NoDoc]
    /\ out' = IF f = OutputPath THEN x ELSE NoDoc
    /\ UNCHANGED <<settings, now, h, last, passes>>

NextChain == Save \/ HandlerRead \/ HandlerWrite
SpecChain ==
  InitChain /\ [][NextChain]_vars /\ WF_vars(HandlerRead) /\ WF_vars(HandlerWrite)

----------------------------------------------------------------------------
(* Properties *)

Subset(S, T) == \A x \in S : x \in T
GroupOf(lines, g) == Range(GroupItems(separateExistingAndNewTodos(lines), g))

\* C1, as stated: of two collectTodos passes in a row over an existing output
\* document, with nothing but the clock changing in between, the second
\* leaves the output document as the first left it and collects no item.
C1_TwicePassSameOutput ==
  (last.op = "collect" /\ last.row = 2 /\ last.outBefore # NoDoc)
    => (out = last.outBefore /\ last.new = <<>>)

\* The first of the two passes ran, and every checked line it kept under
\* policy delayed is still within its retention time at the second pass.
C1_NoDeadlineBetween ==
  /\ last.op = "collect" /\ last.row = 2 /\ last.prevRan
  /\ settings.completedTodoHandling = "delayed" =>
       \A l \in Range(last.outBefore) : StartsChecked(l) => WithinRetention(l, last.at)

\* C1, amended: when the first pass was not refused and no retention time ends
\* between the two passes, the second pass leaves the output document as the
\* first left it, collects no item and rewrites no source document.
C1_TwicePassSameOutputAmended ==
  C1_NoDeadlineBetween
    => (out = last.outBefore /\ last.new = <<>> /\ last.written = {})

\* The second pass follows a pass that collected items and marked their sources.
C1_Witness ==
  /\ C1_NoDeadlineBetween
  /\ last.prevNew # <<>>
  /\ \E p \in Paths : docs[p] # NoDoc /\ HasSentinel(docs[p])
  /\ \E l \in Range(out) : StartsChecked(l)

\* C2: no item line occurs twice in the output document, in every state
\* reached by collectTodos passes and additions of source documents.
C2_NoDuplicateLine ==
  out # NoDoc => \A l \in ItemLines(out) : Count(out, l) = 1

\* Two marked source documents held the same tagged text under the same
\* basename, one of them twice, and the output document holds its line.
C2_Witness ==
  /\ last.op = "collect"
  /\ \A p \in Paths : docs[p] # NoDoc /\ HasSentinel(docs[p])
                      /\ \E i \in DOMAIN docs[p] : docs[p][i] = TagLine("#TODO", "x", 0)
  /\ \E p \in Paths : \E i \in DOMAIN docs[p] : docs[p][i] = TagLine("#t", "x", 0)
  /\ Item(FALSE, "x", "n1", 0) \in Range(out)

\* C3: a collectAndClassifyTodos pass adds no line that the output document
\* already held: no item line of the document occurs more often after the pass.
C3_NoLineAddedAgain ==
  last.op = "classify" =>
    \A l \in ItemLines(last.outBefore) : Count(out, l) <= Count(last.outBefore, l)

\* C4: after a collectTodos pass the output document holds every unchecked line
\* it held before and every newly collected line, whatever the policy.
C4_UncheckedAndNewKept ==
  last.op = "collect" =>
    /\ \A l \in Range(last.outBefore) : StartsUnchecked(l) => l \in Range(out)
    /\ Subset(Range(last.new), Range(out))

\* A pass under policy delayed collected an item, kept an unchecked line and
\* dropped a checked one.
C4_Witness ==
  /\ last.op = "collect" /\ last.ran
  /\ settings.completedTodoHandling = "delayed"
  /\ last.new # <<>>
  /\ \E l \in Range(last.outBefore) : StartsUnchecked(l)
  /\ \E l \in Range(last.outBefore) : StartsChecked(l) /\ l \notin Range(out)

\* C5: a collectAndClassifyTodos pass with classification disabled that
\* collected an item keeps every item line of the output document and adds
\* the new ones.
C5_DisabledPassMerges ==
  (last.op = "classify" /\ ~settings.enableAiClassification /\ last.new # <<>>)
    => /\ Subset(ItemLines(last.outBefore), ItemLines(out))
       /\ Subset(Range(last.new), Range(out))

\* C6: after a malformed classifier response the output document holds every
\* item line it held before and every new item under the catch-all group.
C6_MalformedResponseSafe ==
  (last.op = "classify" /\ last.called /\ last.resp.kind \in MalformedKinds)
    => /\ Subset(ItemLines(last.outBefore), ItemLines(out))
       /\ Subset(Range(last.new), GroupOf(out, CatchAll))

\* C7: after a freeform classification result the output document holds every
\* item line it held before, the lines of non-canonical groups included.
C7_FreeformKeepsExisting ==
  (last.op = "classify" /\ last.called /\ last.resp.kind = "freeform")
    => Subset(ItemLines(last.outBefore), ItemLines(out))

\* C8: after a 2xx response every new item is in the output document, under
\* the group the classifier gave it or, when the result leaves it out or
\* gives it no group, under the catch-all group.
C8_NewItemsPresent ==
  (last.op = "classify" /\ last.called /\ last.resp.kind \notin TransportKinds)
    => \A i \in DOMAIN last.new :
         last.new[i] \in GroupOf(out, IF last.resp.asg[i] \in Range(ClassGroups)
                                      THEN last.resp.asg[i] ELSE CatchAll)

\* C9: a classification call that fails in transport writes nothing: the
\* output document and lastClassificationTime are what they were.
C9_TransportFailureWritesNothing ==
  (last.op = "classify" /\ last.called /\ last.resp.kind \in TransportKinds)
    => /\ out = last.outBefore
       /\ settings.lastClassificationTime = last.lctBefore

\* The call failed with items to classify and a non-empty output document.
C9_Witness ==
  /\ last.op = "classify" /\ last.called /\ last.resp.kind = "non2xx"
  /\ last.new # <<>>
  /\ ItemLines(out) # {}

\* C10: a source document that carries add_todo: true carries it after every
\* step, the handler's read and write interleaved with a pass included.
C10_SentinelNeverCleared ==
  [][\A p \in Paths : (docs[p] # NoDoc /\ HasSentinel(docs[p])) => HasSentinel(docs'[p])]_vars

\* A pass that scanned the source documents.
PassScanned == (last.op = "collect" /\ last.ran) \/ last.op = "classify"

HasTaggedLine(lines) == \E i \in DOMAIN lines : MatchesTag(lines[i])

\* `a` is `b` with the line "add_todo: true" put into its frontmatter block, or
\* with a block of that one line put before it, and no other difference.
OnlySentinelAdded(b, a) ==
  \/ ~hasFrontmatter(b) /\ a = <<Marker, KV("add_todo", "true"), Marker>> \o b
  \/ /\ hasFrontmatter(b)
     /\ \E i \in (frontmatterStart(b) + 1)..frontmatterEnd(b) :
          /\ a[i] = KV("add_todo", "true")
          /\ b = SubSeq(a, 1, i - 1) \o SubSeq(a, i + 1, Len(a))

C11_IffMatched ==
  PassScanned =>
    \A p \in Paths :
      last.docsBefore[p] # NoDoc =>
        ((docs[p] # last.docsBefore[p])
           <=> (HasTaggedLine(last.docsBefore[p]) /\ ~HasSentinel(last.docsBefore[p])))

C11_NothingElseChanged ==
  PassScanned =>
    \A p \in Paths :
      (last.docsBefore[p] # NoDoc /\ docs[p] # last.docsBefore[p]) =>
        HasSentinel(docs[p]) /\ OnlySentinelAdded(last.docsBefore[p], docs[p])

C11_SingleDocument ==
  \A p \in Paths :
    (/\ last.op = "collect" /\ last.ran
     /\ last.outBefore = <<Blank>>
     /\ last.docsBefore = [q \in Paths |-> IF q = p THEN <<TagLine("#TODO", "x", 0)>> ELSE NoDoc])
      => out = <<Item(FALSE, "x", p.base, 0)>>

\* C11: a pass rewrites a source document exactly when it scanned the document
\* and one of its lines matched a tag; the rewritten document carries
\* add_todo: true and differs from the old one in nothing else; a document
\* without a matching line, the empty one included, is not written; from the
\* one source document "#TODO x" and an empty output document the output
\* document becomes the one line "- [ ] x (<basename>)".
C11_RewriteOnlyAddsSentinel ==
  C11_IffMatched /\ C11_NothingElseChanged /\ C11_SingleDocument

\* C12: a source document comes to carry add_todo: true only in a step of a
\* collection pass that scanned it and collected its tagged lines; no other
\* operation, the change handler included, sets the sentinel.
C12_SentinelSetByPassOnly ==
  [][\A p \in Paths :
       (~HasSentinel(docs[p]) /\ HasSentinel(docs'[p]))
         => (last'.op \in {"collect", "classify"} /\ p \in last'.written)]_vars

\* A collectTodos pass that was not refused, under the given policy.
CollectRan(policy) ==
  last.op = "collect" /\ last.ran /\ settings.completedTodoHandling = policy

\* C13: after a collectTodos pass under policy immediate the output document
\* holds no checked line: it is the unchecked lines of the previous output
\* document followed by the new lines.
C13_ImmediateDropsChecked ==
  CollectRan("immediate") =>
    /\ \A l \in Range(out) : ~StartsChecked(l)
    /\ out = Join(SelectSeq(last.outBefore, StartsUnchecked) \o last.new)

\* The pass dropped a checked line, kept an unchecked one and added an item.
C13_Witness ==
  /\ CollectRan("immediate")
  /\ \E l \in Range(last.outBefore) : StartsChecked(l)
  /\ \E l \in Range(last.outBefore) : StartsUnchecked(l)
  /\ last.new # <<>>

\* C14, as stated: after a collectTodos pass under policy keep every line of
\* the previous output document (the empty line of an empty document aside)
\* is in the output document, and so is every new line.
C14_KeepRetainsEveryLine ==
  CollectRan("keep") =>
    /\ \A l \in Range(last.outBefore) : l.k # "blank" => l \in Range(out)
    /\ Subset(Range(last.new), Range(out))

\* C14, amended: after a collectTodos pass under policy keep every item line
\* of the previous output document, checked or unchecked, whatever the age of
\* its completion record, is in the output document, and so is every new line.
C14_KeepRetainsEveryItemLine ==
  CollectRan("keep") =>
    /\ Subset(ItemLines(last.outBefore), Range(out))
    /\ Subset(Range(last.new), Range(out))

\* The pass ran when the only completion record was past the retention time,
\* over a checked line with that record and one without, and added an item.
C14_Witness ==
  /\ CollectRan("keep")
  /\ last.outBefore = FlatOutput
  /\ \A c \in settings.completedTodos : last.at - c.completedAt >= autoDeleteHours * HourMs
  /\ last.new # <<>>

\* C15: after a collectTodos pass under policy delayed a checked line of the
\* previous output document is in the output document exactly when a
\* completion record of its text is younger than autoDeleteHours hours.
C15_DelayedKeepsWithinRetention ==
  CollectRan("delayed") =>
    \A l \in Range(last.outBefore) :
      StartsChecked(l) =>
        (l \in Range(out)
           <=> \E c \in settings.completedTodos :
                 /\ c.text = <<l.t, l.s, l.n>>
                 /\ last.at - c.completedAt < autoDeleteHours * HourMs)

\* The pass ran at the very end of a record's retention time and dropped the
\* record's line.
C15_Witness ==
  /\ CollectRan("delayed")
  /\ \E l \in Range(last.outBefore) :
       /\ StartsChecked(l)
       /\ l \notin Range(out)
       /\ \E c \in settings.completedTodos :
            /\ c.text = <<l.t, l.s, l.n>>
            /\ last.at - c.completedAt = autoDeleteHours * HourMs

\* C16: once a collectTodos pass has seen a checked line in the output
\* document, settings.completedTodos holds a completion record of its text.
C16_RecordCreatedWhenChecked ==
  (last.op = "collect" /\ last.ran) =>
    \A l \in Range(last.outBefore) :
      StartsChecked(l) => \E c \in settings.completedTodos : c.text = <<l.t, l.s, l.n>>

\* C17: the output document written by a collectTodos pass is the kept checked
\* lines, then the unchecked lines, then the new lines, each block in the
\* order of the previous output document, respectively of collection.
C17_CheckedUncheckedNew ==
  (last.op = "collect" /\ last.ran) =>
    out = Join(SelectSeq(last.outBefore, LAMBDA l : StartsChecked(l) /\ l \in Range(out))
               \o SelectSeq(last.outBefore, StartsUnchecked)
               \o last.new)

\* The pass moved a checked line in front of an unchecked one that preceded
\* it, and two new lines follow in the order of collection.
C17_Witness ==
  /\ CollectRan("keep")
  /\ last.outBefore = GroupedOutput
  /\ Len(last.new) = 2
  /\ out = <<Item(TRUE, "w", "n0", 0), Item(FALSE, "u", "n0", 0)>> \o last.new

\* C18: the sweep applied to its own result returns that result, for every
\* document, file path and policy.
C18_SweepIdempotent ==
  h.on => processCompletedTodos(h.newContent, h.file) = h.newContent

\* C19: under policy immediate the sweep returns the document without its
\* checked lines, the other lines unchanged and in order; a document without
\* a checked line is returned as it is.
C19_ImmediateRemovesChecked ==
  (h.on /\ settings.completedTodoHandling = "immediate") =>
    /\ \A l \in Range(h.newContent) : ~StartsChecked(l)
    /\ h.newContent = Join(SelectSeq(Content(h.file), LAMBDA l : ~StartsChecked(l)))
    /\ (\A l \in Range(Content(h.file)) : ~StartsChecked(l)) => h.newContent = Content(h.file)

\* The sweep removed a checked line from a source document that holds a
\* frontmatter marker and an unchecked line.
C19_Witness ==
  /\ h.on /\ settings.completedTodoHandling = "immediate"
  /\ h.file # OutputPath
  /\ h.changed
  /\ \E l \in Range(Content(h.file)) : StartsChecked(l)
  /\ \E l \in Range(h.newContent) : StartsUnchecked(l)
  /\ \E l \in Range(h.newContent) : IsMarker(l)

\* The lines of a document outside its frontmatter block.
OutsideFrontmatter(lines) ==
  IF hasFrontmatter(lines)
  THEN SubSeq(lines, 1, frontmatterStart(lines) - 1)
       \o SubSeq(lines, frontmatterEnd(lines) + 1, Len(lines))
  ELSE lines

\* C20: under policy keep the sweep of a document with a checked line returns
\* a document that holds every line the original held outside its frontmatter
\* block and every key of that block, and whose frontmatter holds
\* add_todo: true exactly when the file is not the output document.
C20_KeepSweepKeepsLines ==
  (/\ h.on /\ settings.completedTodoHandling = "keep"
   /\ \E l \in Range(Content(h.file)) : StartsChecked(l))
    => /\ \A l \in Range(OutsideFrontmatter(Content(h.file))) :
            Count(h.newContent, l) >= Count(OutsideFrontmatter(Content(h.file)), l)
       /\ \A i \in DOMAIN FrontmatterOf(Content(h.file)) :
            \E j \in DOMAIN FrontmatterOf(h.newContent) :
               FrontmatterOf(h.newContent)[j][1] = FrontmatterOf(Content(h.file))[i][1]
       /\ HasSentinel(h.newContent) <=> h.file # OutputPath

\* The lines rendered from the tagged lines of the documents a pass scanned.
RenderedFrom(d) ==
  UNION { { RenderTask(d[p][i], p.base) : i \in {j \in DOMAIN d[p] : MatchesTag(d[p][j])} } :
            p \in {q \in DOMAIN d : ~HasSentinel(d[q])} }

\* C21: a collectTodos pass that finds no output document creates it, and the
\* document then holds exactly one unchecked line for each distinct line
\* rendered from the tagged lines of the candidate documents.
C21_CreatesOutput ==
  (last.op = "collect" /\ last.outBefore = NoDoc) =>
    /\ out # NoDoc
    /\ ItemLines(out) = RenderedFrom(last.docsBefore)
    /\ \A l \in ItemLines(out) : StartsUnchecked(l) /\ Count(out, l) = 1

\* C29: at the end of a collectAndClassifyTodos pass every item rendered from
\* the tagged lines of a source document that gained the sentinel in the pass
\* is in the output document, whatever the classification call did.
C29_NoItemLostAfterSentinel ==
  last.op = "classify" =>
    \A p \in last.written :
      \A i \in DOMAIN last.docsBefore[p] :
        MatchesTag(last.docsBefore[p][i])
          => RenderTask(last.docsBefore[p][i], p.base) \in Range(out)

\* The lines the last classification result holds under group g, and the
\* lines the output document held under it before the pass.
NewOf(g) ==
  IF g = CatchAll THEN ItemsOf(last.new, last.resp.asg, "none")
  ELSE IF g \in Range(ClassGroups) THEN ItemsOf(last.new, last.resp.asg, g)
  ELSE <<>>
ExistingOf(g) == GroupItems(ExistingGroups(last.outBefore), g)

HeaderNames(lines) ==
  LET hs == SelectSeq(lines, LAMBDA l : l.k = "hdr")
  IN [i \in DOMAIN hs |-> hs[i].t]

\* The pass wrote the merge of the existing groups and a classification
\* result (and not the fallback document of an empty merge).
MergeWritten ==
  /\ last.op = "classify" /\ last.called
  /\ \/ last.resp.kind = "json"
     \/ /\ last.resp.kind = "freeform"
        /\ \/ \E i \in DOMAIN DEFAULT_GROUPS :
                 ExistingOf(DEFAULT_GROUPS[i]) \o NewOf(DEFAULT_GROUPS[i]) # <<>>
           \/ \E i \in DOMAIN ClassGroups : NewOf(ClassGroups[i]) # <<>>

\* C27: the merged document lists the canonical groups in their fixed order,
\* a section for exactly the non-empty ones, each with the existing lines
\* before the new ones; the non-canonical groups of the new result follow,
\* and none of their lines is moved to the catch-all group.
C27_MergedGroupOrder ==
  MergeWritten =>
    LET canon == SelectSeq(DEFAULT_GROUPS, LAMBDA g : ExistingOf(g) \o NewOf(g) # <<>>)
        names == HeaderNames(out)
        og == separateExistingAndNewTodos(out)
    IN /\ Len(names) >= Len(canon)
       /\ SubSeq(names, 1, Len(canon)) = canon
       /\ \A i \in (Len(canon) + 1)..Len(names) : ~IsDefaultGroup(names[i])
       /\ \A i \in DOMAIN DEFAULT_GROUPS :
            GroupItems(og, DEFAULT_GROUPS[i])
              = ExistingOf(DEFAULT_GROUPS[i]) \o NewOf(DEFAULT_GROUPS[i])
       /\ \A i \in DOMAIN ClassGroups :
            (~IsDefaultGroup(ClassGroups[i]) /\ NewOf(ClassGroups[i]) # <<>>) =>
              /\ \E j \in DOMAIN names : names[j] = ClassGroups[i]
              /\ Subset(Range(NewOf(ClassGroups[i])), Range(GroupItems(og, ClassGroups[i])))
              /\ \A l \in Range(NewOf(ClassGroups[i])) :
                   l \in Range(GroupItems(og, CatchAll))
                     => l \in Range(ExistingOf(CatchAll) \o NewOf(CatchAll))

\* A freeform result gave one new item to a canonical group that already held
\* a line and another to a non-canonical group.
C27_Witness ==
  /\ MergeWritten
  /\ last.resp.kind = "freeform"
  /\ last.outBefore = GroupedOutput
  /\ Len(last.new) = 2
  /\ last.resp.asg = <<"kaimono", "emoji kaimono">>

\* A pass of either entry point.
PassStarted == last.op \in {"collect", "classify"}

\* C22: a pass started, through either entry point, while the protection flag
\* is on and lastClassificationTime is less than 24 hours back writes neither
\* the output document nor a source document.
C22_ProtectedPassWritesNothing ==
  (/\ PassStarted
   /\ settings.protectClassifiedFiles
   /\ last.lctBefore > 0
   /\ last.at - last.lctBefore < 24 * HourMs)
    => (out = last.outBefore /\ docs = last.docsBefore)

\* C23: a pass started while the output document is missing, or a
\* collectAndClassifyTodos pass started while classification is enabled and
\* the endpoint or the credential is empty, writes neither the output
\* document nor a source document.
C23_IncompleteConfigWritesNothing ==
  (/\ PassStarted
   /\ \/ last.outBefore = NoDoc
      \/ /\ last.op = "classify"
         /\ settings.enableAiClassification
         /\ settings.todoClassificationProxyUrl = "" \/ settings.geminiApiKey = "")
    => (out = last.outBefore /\ docs = last.docsBefore)

\* The entries of a parsed block other than the sentinel.
OtherKeys(obj) == SelectSeq(obj, LAMBDA e : e[1] # "add_todo")

\* C24: when a pass sets the sentinel on a document that has a frontmatter
\* block, the other keys of the block keep their values and their order, and
\* the lines before and after the block are unchanged.
C24_OtherKeysRetained ==
  PassScanned =>
    \A p \in last.written :
      hasFrontmatter(last.docsBefore[p]) =>
        /\ hasFrontmatter(docs[p])
        /\ OtherKeys(FrontmatterOf(docs[p])) = OtherKeys(FrontmatterOf(last.docsBefore[p]))
        /\ SubSeq(docs[p], 1, frontmatterStart(docs[p]) - 1)
             = SubSeq(last.docsBefore[p], 1, frontmatterStart(last.docsBefore[p]) - 1)
        /\ SubSeq(docs[p], frontmatterEnd(docs[p]) + 1, Len(docs[p]))
             = SubSeq(last.docsBefore[p], frontmatterEnd(last.docsBefore[p]) + 1,
                      Len(last.docsBefore[p]))

\* The pass marked a document whose block holds two keys and is followed by
\* the tagged line.
C24_Witness ==
  /\ PassScanned
  /\ last.written = {AllPaths[1]}
  /\ last.docsBefore[AllPaths[1]]
       = <<Marker, KV("tags", "work"), KV("title", "Test"), Marker, TagLine("#TODO", "x", 0)>>
  /\ HasSentinel(docs[AllPaths[1]])

\* A document starts with a frontmatter block: its first non-empty line is a
\* marker line and a second marker line follows.
StartsWithBlock(lines) ==
  /\ hasFrontmatter(lines)
  /\ \A i \in 1..(frontmatterStart(lines) - 1) : lines[i].k = "blank"

\* C25: marker lines are a frontmatter block only when the first of them is
\* the first non-empty line and a second one follows; when a pass sets the
\* sentinel on any other document, markers in the body or a single marker
\* included, it puts a new block before the document and leaves the rest as
\* it was.
C25_BlockOnlyAtTop ==
  PassScanned =>
    \A p \in last.written :
      ~StartsWithBlock(last.docsBefore[p]) =>
        docs[p] = <<Marker, KV("add_todo", "true"), Marker>> \o last.docsBefore[p]

\* The directories that, by the rule of the claim, select the files of a
\* directory: those that are, letter case aside, the directory or one above it.
SelectedBy(fileDir) ==
  CASE fileDir = "a" -> {"a", "A", "a/"}
    [] fileDir = "A" -> {"a", "A", "a/"}
    [] fileDir = "a/s" -> {"a", "A", "a/", "a/s"}
    [] fileDir = "ab" -> {"ab"}
    [] fileDir = "b" -> {"b"}
    [] OTHER -> {}

C28_ChainEnds ==
  /\ <>[](h.on => ~h.changed)
  /\ <>[][(docs' = docs /\ out' = out) \/ ~h.on]_vars

\* Under policy keep the handler has read the output document and found
\* nothing to write, after the document was rewritten to more than
\* MaxChainLen lines with a checked item left in it.
C28_Witness ==
  /\ h.on /\ ~h.changed /\ h.file = OutputPath
  /\ settings.completedTodoHandling = "keep"
  /\ Len(out) > MaxChainLen
  /\ \E i \in DOMAIN out : StartsChecked(out[i])

\* C30: two interleaved passes never both collect from the same document, and
\* no item is twice in the output document.
C30_InterleavedCollectOnce ==
  /\ passes["ribbon"].written \cap passes["command"].written = {}
  /\ out # NoDoc =>
       \A i \in DOMAIN out : out[i].k = "item" => Count(out, out[i]) = 1

====
